---------------------------- MODULE Spec2Model ----------------------------
(***************************************************************************)
(* PythonManager (src/pythonManager.js): the supervisor of one Python      *)
(* worker process, its newline-delimited JSON framing of the worker's      *)
(* stdout, and the command surface built on sendCommand.                   *)
(*                                                                         *)
(* The host is single threaded: every public method and every event        *)
(* handler runs to completion, so each is one action.  The worker          *)
(* processes are separate entities whose events (stdout, stderr, error,    *)
(* close) arrive in any interleaving with the host's calls.                *)
(***************************************************************************)
EXTENDS Integers, Sequences, FiniteSets, TLC

(***************************************************************************)
(* Bounds of the model.                                                    *)
(***************************************************************************)
\* worker processes the host may spawn in one run
MaxProcs == 3
\* bytes the only worker of a run may emit on stdout between two resets of
\* the output buffer
MaxBytes == 4
\* bytes the workers of a run with several workers may emit on stdout
\* between two resets of the output buffer
MaxFewBytes == 2
\* entries of the python.analysis.extraPaths setting
MaxExtraPaths == 2
\* the depth at which addSubdirs of part_000 stops (its line 46)
MaxDepth == 5

Pids == 1..MaxProcs

\* null of JavaScript, for the process handle and the callback
Null == 0

\* the functions a caller passes to start(onMessage)
Callbacks == {1, 2}

\* the callbacks that throw when they are called with a response
ThrowingCallbacks == {2}

(***************************************************************************)
(* Text.  A Buffer chunk is a sequence of bytes; a JavaScript string is a   *)
(* sequence of characters.  The bytes are "1" (a digit), " " (a space),     *)
(* "\n" and the two bytes C3 A9 of the UTF-8 encoding of U+00E9.            *)
(***************************************************************************)
Bytes == {"1", " ", "\n", "C3", "A9"}

\* the bytes emitted in a run with several workers
FewBytes == {"1", "\n"}

Whitespace == {" ", "\n"}

\* data.toString(): UTF-8 decoding of ONE chunk.  A lead byte without its
\* continuation byte, and a continuation byte without its lead byte, each
\* decode to the replacement character U+FFFD.
RECURSIVE toString(_)
toString(data) ==
    IF data = <<>> THEN <<>>
    ELSE IF data[1] = "C3"
         THEN IF Len(data) >= 2 /\ data[2] = "A9"
              THEN <<"U+00E9">> \o toString(SubSeq(data, 3, Len(data)))
              ELSE <<"U+FFFD">> \o toString(Tail(data))
    ELSE IF data[1] = "A9"
         THEN <<"U+FFFD">> \o toString(Tail(data))
    ELSE <<data[1]>> \o toString(Tail(data))

\* String.prototype.indexOf(ch): the first position of ch (1-based), 0 for
\* JavaScript's -1.
RECURSIVE indexOfFrom(_, _, _)
indexOfFrom(s, ch, i) ==
    IF i > Len(s) THEN 0
    ELSE IF s[i] = ch THEN i
    ELSE indexOfFrom(s, ch, i + 1)

indexOf(s, ch) == indexOfFrom(s, ch, 1)

\* String.prototype.trim(): whitespace removed at both ends.
RECURSIVE trimStart(_)
trimStart(s) ==
    IF s # <<>> /\ s[1] \in Whitespace THEN trimStart(Tail(s)) ELSE s

RECURSIVE trimEnd(_)
trimEnd(s) ==
    IF s # <<>> /\ s[Len(s)] \in Whitespace
    THEN trimEnd(SubSeq(s, 1, Len(s) - 1))
    ELSE s

trim(s) == trimEnd(trimStart(s))

\* The value of a JSON number written with the digit 1 only.
RECURSIVE NumberValue(_)
NumberValue(s) ==
    IF s = <<>> THEN 0 ELSE 10 * NumberValue(SubSeq(s, 1, Len(s) - 1)) + 1

\* JSON.parse(line) on this alphabet: a non-empty run of digits is a number;
\* everything else (inner whitespace, a character outside a string, the
\* empty text) throws SyntaxError.
JSONparse(line) ==
    IF line # <<>> /\ \A i \in 1..Len(line) : line[i] = "1"
    THEN [ok |-> TRUE, value |-> NumberValue(line)]
    ELSE [ok |-> FALSE, value |-> 0]

(***************************************************************************)
(* The search path of the worker (src/pythonManager.js lines 36-57, and    *)
(* the start of src/unnamed/part_000, lines 23-74, which also adds the     *)
(* directories of the workspace).  A path is a sequence of pieces: "/" and *)
(* the names between two of them; the paths of the model end in a name.    *)
(***************************************************************************)
Undefined == [value |-> <<>>, defined |-> FALSE]
Some(value) == [value |-> value, defined |-> TRUE]

\* the truth value JavaScript gives an optional string in a condition
truthyString(s) == s.defined /\ s.value # <<>>

isAbsolute(p) == p # <<>> /\ p[1] = "/"

NotSeparator(piece) == piece # "/"

\* path.normalize on the names of a path: "." is dropped, ".." takes the
\* name before it, and is kept at the front of a relative path
RECURSIVE resolveNames(_, _, _)
resolveNames(names, absolute, done) ==
    IF names = <<>>
    THEN done
    ELSE IF Head(names) = "."
    THEN resolveNames(Tail(names), absolute, done)
    ELSE IF Head(names) = ".."
    THEN IF done # <<>> /\ done[Len(done)] # ".."
         THEN resolveNames(Tail(names), absolute,
                           SubSeq(done, 1, Len(done) - 1))
         ELSE IF absolute
         THEN resolveNames(Tail(names), absolute, done)
         ELSE resolveNames(Tail(names), absolute, Append(done, ".."))
    ELSE resolveNames(Tail(names), absolute, Append(done, Head(names)))

RECURSIVE separated(_)
separated(names) ==
    IF Len(names) <= 1
    THEN names
    ELSE <<Head(names), "/">> \o separated(Tail(names))

normalize(p) ==
    LET names == resolveNames(SelectSeq(p, NotSeparator), isAbsolute(p), <<>>)
    IN  IF isAbsolute(p)
        THEN <<"/">> \o separated(names)
        ELSE IF names = <<>> THEN <<".">> ELSE separated(names)

\* path.join(a, b): the non-empty arguments, separated, then normalized
join(a, b) ==
    IF a = <<>> THEN normalize(b)
    ELSE IF b = <<>> THEN normalize(a)
    ELSE normalize(a \o <<"/">> \o b)

\* context.extensionPath
extensionPath == <<"/", "ext">>
extensionPythonPath == join(extensionPath, <<"python">>)

\* the directories under the workspace folder, in the order the system
\* lists them: each is the sequence of the names from the folder down to
\* it, a name being its prefix and its rest
Lib == <<"lib">>
Skipped == <<<<".", "git">>, <<".", "vscode">>, <<"__", "pycache__">>,
             <<"node_modules">>, <<"venv">>>>
Chain == <<Lib, <<"pkg">>, <<"a">>, <<"b">>, <<"c">>, <<"d">>, <<"e">>>>

NoDirs == [readable |-> TRUE, dirs |-> <<>>]
Project ==
    [readable |-> TRUE,
     dirs |-> [i \in 1..Len(Skipped) |-> <<Skipped[i]>>]
                  \o [n \in 1..Len(Chain) |-> SubSeq(Chain, 1, n)]
                  \o [i \in 1..Len(Skipped) |-> <<Lib, Skipped[i]>>]]
Unreadable == [readable |-> FALSE, dirs |-> <<>>]
Trees == {NoDirs, Project, Unreadable}

\* the configured extra paths: ./lib, /abs/x, ../lib
ExtraPaths == {<<".", "/", "lib">>, <<"/", "abs", "/", "x">>,
               <<"..", "/", "lib">>}

RECURSIVE SeqsUpTo(_, _)
SeqsUpTo(S, n) ==
    IF n = 0
    THEN {<<>>}
    ELSE SeqsUpTo(S, n - 1)
             \cup {Append(q, x) : q \in SeqsUpTo(S, n - 1), x \in S}

\* what start reads of the machine: the python.analysis.extraPaths setting,
\* the first workspace folder, process.env.PYTHONPATH, the file system
Hosts ==
    [extraPaths      : SeqsUpTo(ExtraPaths, MaxExtraPaths),
     workspaceFolder : {Undefined},
     PYTHONPATH      : {Undefined, Some(<<>>), Some(<<"/", "old">>)},
     tree            : {NoDirs}]
        \cup
    [extraPaths      : SeqsUpTo(ExtraPaths, MaxExtraPaths),
     workspaceFolder : {Some(<<"/", "ws">>)},
     PYTHONPATH      : {Undefined, Some(<<>>), Some(<<"/", "old">>)},
     tree            : Trees]

\* the machine of the runs with worker output and commands
ExampleHost ==
    [extraPaths      |-> <<<<".", "/", "lib">>, <<"/", "abs", "/", "x">>>>,
     workspaceFolder |-> Some(<<"/", "ws">>),
     PYTHONPATH      |-> Some(<<"/", "old">>),
     tree            |-> NoDirs]

\* lines 46-51 of src/pythonManager.js
resolvedPaths(machine) ==
    [i \in 1..Len(machine.extraPaths) |->
        LET p == machine.extraPaths[i]
        IN  IF isAbsolute(p)
            THEN p
            ELSE IF truthyString(machine.workspaceFolder)
            THEN join(machine.workspaceFolder.value, p)
            ELSE p]

\* lines 53-56 of src/pythonManager.js
pythonPathParts(machine) ==
    resolvedPaths(machine) \o <<extensionPythonPath>>
        \o (IF truthyString(machine.PYTHONPATH)
            THEN <<machine.PYTHONPATH.value>>
            ELSE <<>>)

\* entry.name.startsWith(prefix)
startsWith(name, prefix) == name[1] = prefix

\* lines 49-54 of part_000: the entries addSubdirs goes into
Entered(name) ==
    /\ ~startsWith(name, ".")
    /\ ~startsWith(name, "__")
    /\ name # <<"node_modules">>
    /\ name # <<"venv">>
    /\ name # <<".", "git">>

\* fs.readdirSync(dir): the directories in dir, in the order of the system
readdirSync(tree, dir) ==
    LET inDir(d) == /\ Len(d) = Len(dir) + 1
                    /\ SubSeq(d, 1, Len(dir)) = dir
    IN  SelectSeq(tree.dirs, inDir)

\* lines 45-61 of part_000: the directories pushed, from dir down
RECURSIVE addSubdirs(_, _, _)
RECURSIVE addEntries(_, _, _)
addSubdirs(tree, dir, depth) ==
    IF depth > MaxDepth
    THEN <<>>
    ELSE addEntries(tree, readdirSync(tree, dir), depth)

addEntries(tree, entries, depth) ==
    IF entries = <<>>
    THEN <<>>
    ELSE LET subdir == Head(entries)
         IN  (IF Entered(subdir[Len(subdir)])
              THEN <<subdir>> \o addSubdirs(tree, subdir, depth + 1)
              ELSE <<>>)
                 \o addEntries(tree, Tail(entries), depth)

\* path.join(dir, entry.name) down from the workspace folder
RECURSIVE pathOf(_, _)
pathOf(workspaceFolder, dir) ==
    IF dir = <<>>
    THEN workspaceFolder
    ELSE join(pathOf(workspaceFolder, SubSeq(dir, 1, Len(dir) - 1)),
              dir[Len(dir)])

\* lines 32-73 of part_000
pythonPathPartsWithSubdirs(machine) ==
    LET ws == machine.workspaceFolder
        pushed == IF truthyString(ws) /\ machine.tree.readable
                  THEN addSubdirs(machine.tree, <<>>, 0)
                  ELSE <<>>
    IN  resolvedPaths(machine)
            \o [i \in 1..Len(pushed) |-> pathOf(ws.value, pushed[i])]
            \o <<extensionPythonPath>>
            \o (IF truthyString(machine.PYTHONPATH)
                THEN <<machine.PYTHONPATH.value>>
                ELSE <<>>)

\* no spawn was attempted
NoEnv == [PYTHONPATH |-> <<>>, built |-> FALSE]

\* lines 59-62: the options spawn() is called with
spawnOptions(parts) == [PYTHONPATH |-> parts, built |-> TRUE]

(***************************************************************************)
(* State.                                                                  *)
(***************************************************************************)
VARIABLES
    process,          \* this.process: Null or the ChildProcess held
    messageCallback,  \* this.messageCallback: Null or a callback
    outputBuffer,     \* this.outputBuffer: characters not yet framed
    procState,        \* each spawned ChildProcess, as the OS and Node see it
    killedAgain,      \* kill() was called on a process signalled before
    received,         \* bytes given to the stdout handlers since the reset
    bufferOrigin,     \* for each character of outputBuffer, its process
    fed,              \* characters appended to outputBuffer since its reset
    log,              \* lines handed to JSON.parse since the reset
    bound,            \* the callback passed to the latest start call
    host,             \* the machine: settings, environment, file system
    last              \* the latest call or event and its outcome

vars == <<process, messageCallback, outputBuffer, procState, killedAgain,
          received, bufferOrigin, fed, log, bound, host, last>>

\* "unborn": not spawned yet.  "running": spawned, never killed, close not
\* emitted.  "killed": kill() was called, close not emitted yet (its pipes
\* may still hold output).  "failed": spawn() returned a ChildProcess whose
\* 'error' event is pending; "failedKilled": the same after a kill() call.
\* "errored": 'error' emitted, close pending.  "closed": 'close' emitted,
\* nothing follows.
ProcStates == {"unborn", "running", "killed", "failed", "failedKilled",
               "errored", "closed"}

spawned == {p \in Pids : procState[p] # "unborn"}

nextPid == Cardinality(spawned) + 1

\* the record kept of the latest call or event
\* no method of the facade made the call
NoCall == [method |-> "none", args |-> <<>>, command |-> <<>>,
           fault |-> "none"]

Event(op, pid, held, ret, diag, spawn, code, wrote) ==
    [op |-> op, pid |-> pid, held |-> held, ret |-> ret, diag |-> diag,
     spawn |-> spawn, code |-> code, wrote |-> wrote, call |-> NoCall,
     env |-> NoEnv]

Init ==
    /\ process = Null
    /\ messageCallback = Null
    /\ outputBuffer = <<>>
    /\ procState = [p \in Pids |-> "unborn"]
    /\ killedAgain = FALSE
    /\ received = <<>>
    /\ bufferOrigin = <<>>
    /\ fed = <<>>
    /\ log = <<>>
    /\ bound = Null
    /\ host = ExampleHost
    /\ last = Event("new", Null, Null, "void", "none", "none", "none", <<>>)

\* a session constructed on any machine
EnvInit ==
    /\ process = Null
    /\ messageCallback = Null
    /\ outputBuffer = <<>>
    /\ procState = [p \in Pids |-> "unborn"]
    /\ killedAgain = FALSE
    /\ received = <<>>
    /\ bufferOrigin = <<>>
    /\ fed = <<>>
    /\ log = <<>>
    /\ bound = Null
    /\ host \in Hosts
    /\ last = Event("new", Null, Null, "void", "none", "none", "none", <<>>)

(***************************************************************************)
(* isRunning()                                                             *)
(***************************************************************************)
isRunning == process # Null


(***************************************************************************)
(* start(onMessage).  spawn() has three outcomes: it throws, it returns a  *)
(* ChildProcess that runs ("ok"), or it returns a ChildProcess whose       *)
(* 'error' event (e.g. ENOENT) is emitted later ("asyncError").            *)
(***************************************************************************)
SpawnOutcomes == {"ok", "throw", "asyncError"}

\* start with the assignment of line 17 moved below the early return
startRebindKeepsCallback(onMessage) ==
    /\ messageCallback' = messageCallback
    /\ bound' = onMessage
    /\ host' = host
    /\ process # Null
    /\ last' = Event("start", process, process, "void", "none", "none",
                     "none", <<>>)
    /\ UNCHANGED <<process, outputBuffer, procState, killedAgain, received,
                   bufferOrigin, fed, log>>

\* lines 17-22: the callback is rebound, and a held process ends the call
startRebind(onMessage) ==
    /\ messageCallback' = onMessage
    /\ bound' = onMessage
    /\ host' = host
    /\ process # Null
    /\ last' = Event("start", process, process, "void", "none", "none",
                     "none", <<>>)
    /\ UNCHANGED <<process, outputBuffer, procState, killedAgain, received,
                   bufferOrigin, fed, log>>

\* lines 17-76: no process is held: the buffer is reset and spawn() is
\* tried with the options built from what the host offers
spawnWorker(options, onMessage, outcome) ==
    /\ messageCallback' = onMessage
    /\ bound' = onMessage
    /\ host' = host
    /\ process = Null
    /\ outputBuffer' = <<>>
    /\ bufferOrigin' = <<>>
    /\ fed' = <<>>
    /\ received' = <<>>
    /\ log' = <<>>
    /\ IF outcome = "throw"
       THEN /\ process' = Null
            /\ procState' = procState
            /\ last' = [Event("start", Null, process, "void", "error",
                              outcome, "none", <<>>)
                            EXCEPT !.env = options]
       ELSE /\ nextPid \in Pids
            /\ process' = nextPid
            /\ procState' = [procState EXCEPT
                   ![nextPid] = IF outcome = "ok" THEN "running" ELSE "failed"]
            /\ last' = [Event("start", nextPid, process, "void", "none",
                              outcome, "none", <<>>)
                            EXCEPT !.env = options]
    /\ UNCHANGED killedAgain

\* lines 36-76 of src/unnamed/part_000 in the place of those of start
startSpawnPart000(onMessage, outcome) ==
    spawnWorker(spawnOptions(pythonPathPartsWithSubdirs(host)), onMessage,
                outcome)

startSpawn(onMessage, outcome) ==
    spawnWorker(spawnOptions(pythonPathParts(host)), onMessage, outcome)

Start(onMessage) ==
    \/ startRebind(onMessage)
    \/ \E outcome \in SpawnOutcomes : startSpawn(onMessage, outcome)

\* start as src/unnamed/part_000 has it
StartPart000(onMessage) ==
    \/ startRebind(onMessage)
    \/ \E outcome \in SpawnOutcomes : startSpawnPart000(onMessage, outcome)

(***************************************************************************)
(* The 'error' handler of a process (lines 79-86).                         *)
(***************************************************************************)
OnError(p) ==
    /\ procState[p] \in {"failed", "failedKilled"}
    /\ procState' = [procState EXCEPT ![p] = "errored"]
    /\ process' = Null
    /\ last' = Event("error", p, process, "void", "error", "none", "none",
                     <<>>)
    /\ UNCHANGED <<messageCallback, outputBuffer, killedAgain, received,
                   bufferOrigin, fed, log, bound, host>>

(***************************************************************************)
(* The stdout 'data' handler of a process (lines 88-112).                  *)
(***************************************************************************)
\* lines 98-110: one framed line: parsed, and the callback invoked with the
\* response when there is a callback.  cb is the callback invoked, or Null.
decodeLine(line, callback, pid) ==
    IF Len(line) > 0
    THEN LET response == JSONparse(line)
         IN  <<[pid |-> pid, line |-> line, ok |-> response.ok,
                value |-> response.value,
                cb |-> IF response.ok THEN callback ELSE Null,
                caught |-> \/ ~response.ok
                           \/ callback \in ThrowingCallbacks]>>
    ELSE <<>>

\* the loop with the call of the callback outside the try block: a fault of
\* the callback ends the handler, the lines after it stay in the buffer
RECURSIVE drainCallbackOutsideTry(_, _, _)
drainCallbackOutsideTry(buffer, callback, pid) ==
    LET lineEnd == indexOf(buffer, "\n")
    IN  IF lineEnd = 0
        THEN [buffer |-> buffer, entries |-> <<>>]
        ELSE LET line == trim(SubSeq(buffer, 1, lineEnd - 1))
                 rest == SubSeq(buffer, lineEnd + 1, Len(buffer))
                 r    == drainCallbackOutsideTry(rest, callback, pid)
             IN  IF /\ Len(line) > 0
                    /\ JSONparse(line).ok
                    /\ callback \in ThrowingCallbacks
                 THEN [buffer  |-> rest,
                       entries |-> decodeLine(line, callback, pid)]
                 ELSE [buffer  |-> r.buffer,
                       entries |-> decodeLine(line, callback, pid)
                                       \o r.entries]

\* the loop with a catch block that gives up on the rest of the buffer
RECURSIVE drainStopsAtBadLine(_, _, _)
drainStopsAtBadLine(buffer, callback, pid) ==
    LET lineEnd == indexOf(buffer, "\n")
    IN  IF lineEnd = 0
        THEN [buffer |-> buffer, entries |-> <<>>]
        ELSE LET line == trim(SubSeq(buffer, 1, lineEnd - 1))
                 rest == SubSeq(buffer, lineEnd + 1, Len(buffer))
                 r    == drainStopsAtBadLine(rest, callback, pid)
             IN  IF Len(line) > 0 /\ ~JSONparse(line).ok
                 THEN [buffer  |-> <<>>,
                       entries |-> decodeLine(line, callback, pid)]
                 ELSE [buffer  |-> r.buffer,
                       entries |-> decodeLine(line, callback, pid)
                                       \o r.entries]

\* the loop followed by a flush of the unterminated rest of the buffer
RECURSIVE drainFlushesFragment(_, _, _)
drainFlushesFragment(buffer, callback, pid) ==
    LET lineEnd == indexOf(buffer, "\n")
    IN  IF lineEnd = 0
        THEN [buffer  |-> <<>>,
              entries |-> decodeLine(trim(buffer), callback, pid)]
        ELSE LET line == trim(SubSeq(buffer, 1, lineEnd - 1))
                 rest == SubSeq(buffer, lineEnd + 1, Len(buffer))
                 r    == drainFlushesFragment(rest, callback, pid)
             IN  [buffer  |-> r.buffer,
                  entries |-> decodeLine(line, callback, pid) \o r.entries]

\* the loop handing the lines of a chunk on from the last to the first
RECURSIVE drainNewestFirst(_, _, _)
drainNewestFirst(buffer, callback, pid) ==
    LET lineEnd == indexOf(buffer, "\n")
    IN  IF lineEnd = 0
        THEN [buffer |-> buffer, entries |-> <<>>]
        ELSE LET line == trim(SubSeq(buffer, 1, lineEnd - 1))
                 rest == SubSeq(buffer, lineEnd + 1, Len(buffer))
                 r    == drainNewestFirst(rest, callback, pid)
             IN  [buffer  |-> r.buffer,
                  entries |-> r.entries \o decodeLine(line, callback, pid)]

\* lines 93-111: the while loop over the complete lines of the buffer
RECURSIVE drain(_, _, _)
drain(buffer, callback, pid) ==
    LET lineEnd == indexOf(buffer, "\n")
    IN  IF lineEnd = 0
        THEN [buffer |-> buffer, entries |-> <<>>]
        ELSE LET line == trim(SubSeq(buffer, 1, lineEnd - 1))
                 rest == SubSeq(buffer, lineEnd + 1, Len(buffer))
                 r    == drain(rest, callback, pid)
             IN  [buffer  |-> r.buffer,
                  entries |-> decodeLine(line, callback, pid) \o r.entries]

\* line 90: this.outputBuffer += data.toString()
append(buffer, data) == buffer \o toString(data)

\* the chunks a pipe read may deliver now: any non-empty byte sequence
\* within the bounds of the run
Chunks ==
    IF Cardinality(spawned) <= 1
    THEN UNION {[1..k -> Bytes] : k \in 1..(MaxBytes - Len(received))}
    ELSE UNION {[1..k -> FewBytes] : k \in 1..(MaxFewBytes - Len(received))}

\* the last n elements of s
Suffix(s, n) == SubSeq(s, Len(s) - n + 1, Len(s))

OnStdoutData(p, data) ==
    /\ procState[p] \in {"running", "killed"}
    /\ LET r == drain(append(outputBuffer, data), messageCallback, p)
           origin == bufferOrigin \o [i \in 1..Len(toString(data)) |-> p]
       IN  /\ outputBuffer' = r.buffer
           /\ log' = log \o r.entries
           /\ bufferOrigin' = Suffix(origin, Len(r.buffer))
    /\ fed' = fed \o toString(data)
    /\ received' = received \o data
    /\ last' = Event("stdout", p, process, "void", "none", "none", "none",
                     <<>>)
    /\ UNCHANGED <<process, messageCallback, procState, killedAgain, bound,
                   host>>

(***************************************************************************)
(* The stderr 'data' handler of a process (lines 114-124).  A text is a    *)
(* sequence of pieces, none of which a marker cuts in two; includes() is   *)
(* the search for a contiguous run of pieces.                              *)
(***************************************************************************)
Markers == {<<"Module", "NotFound", "Error">>, <<"Import", "Error">>,
            <<"Syntax", "Error">>, <<"No", " ", "module", " ", "named">>}

StderrMessages == {<<"Module", "NotFound", "Error">>,
                   <<"Zip", "Import", "Error">>,
                   <<"Syntax", "Error">>,
                   <<"No", " ", "module", " ", "named", " ", "numpy">>,
                   <<"No", " ", "module">>,
                   <<"Syntax", "Warning">>}

\* the two of them that come between the other events of a long run
FewStderrMessages == {<<"Syntax", "Error">>, <<"Syntax", "Warning">>}

includes(s, t) ==
    \E i \in 1..(Len(s) - Len(t) + 1) : SubSeq(s, i, i + Len(t) - 1) = t

\* the condition of lines 118-121 without its second operand
isCriticalButForImportError(errorMsg) ==
    \/ includes(errorMsg, <<"Module", "NotFound", "Error">>)
    \/ includes(errorMsg, <<"Syntax", "Error">>)
    \/ includes(errorMsg, <<"No", " ", "module", " ", "named">>)

\* lines 118-121: the condition under which the chunk is shown to the user
isCritical(errorMsg) ==
    \/ includes(errorMsg, <<"Module", "NotFound", "Error">>)
    \/ includes(errorMsg, <<"Import", "Error">>)
    \/ includes(errorMsg, <<"Syntax", "Error">>)
    \/ includes(errorMsg, <<"No", " ", "module", " ", "named">>)

OnStderrData(p, errorMsg) ==
    /\ procState[p] \in {"running", "killed"}
    /\ last' = Event("stderr", Null, Null, "void",
                     IF isCritical(errorMsg) THEN "error" ELSE "none",
                     "none", "none", errorMsg)
    /\ UNCHANGED <<process, messageCallback, outputBuffer, procState,
                   killedAgain, received, bufferOrigin, fed, log, bound, host>>

(***************************************************************************)
(* The 'close' handler of a process (lines 126-136).  The exit code is a   *)
(* number, or null when a signal ended the process; Node reports a failed  *)
(* spawn with the negative errno.                                          *)
(***************************************************************************)
ExitCodes(p) ==
    IF procState[p] = "errored" THEN {"-2"} ELSE {"null", "0", "1"}

\* the close handler with "code !== 0" alone as the condition of line 129
OnCloseWarnsOnNull(p, code) ==
    /\ procState[p] \in {"running", "killed", "errored"}
    /\ procState' = [procState EXCEPT ![p] = "closed"]
    /\ process' = Null
    /\ outputBuffer' = <<>>
    /\ bufferOrigin' = <<>>
    /\ fed' = <<>>
    /\ received' = <<>>
    /\ log' = <<>>
    /\ last' = Event("close", p, process, "void",
                     IF code # "0" THEN "warning" ELSE "none",
                     "none", code, <<>>)
    /\ UNCHANGED <<messageCallback, killedAgain, bound, host>>

\* the close handler without line 134
OnCloseKeepsHandle(p, code) ==
    /\ procState[p] \in {"running", "killed", "errored"}
    /\ procState' = [procState EXCEPT ![p] = "closed"]
    /\ outputBuffer' = <<>>
    /\ bufferOrigin' = <<>>
    /\ fed' = <<>>
    /\ received' = <<>>
    /\ log' = <<>>
    /\ last' = Event("close", p, process, "void",
                     IF code # "0" /\ code # "null" THEN "warning" ELSE "none",
                     "none", code, <<>>)
    /\ UNCHANGED <<process, messageCallback, killedAgain, bound, host>>

OnClose(p, code) ==
    /\ procState[p] \in {"running", "killed", "errored"}
    /\ procState' = [procState EXCEPT ![p] = "closed"]
    /\ process' = Null
    /\ outputBuffer' = <<>>
    /\ bufferOrigin' = <<>>
    /\ fed' = <<>>
    /\ received' = <<>>
    /\ log' = <<>>
    /\ last' = Event("close", p, process, "void",
                     IF code # "0" /\ code # "null" THEN "warning" ELSE "none",
                     "none", code, <<>>)
    /\ UNCHANGED <<messageCallback, killedAgain, bound, host>>

(***************************************************************************)
(* sendCommand(command) (lines 139-155).  A string is a sequence of        *)
(* pieces, a value a pair of its type and its text, a command object the   *)
(* sequence of its members in the order they were set.                     *)
(***************************************************************************)
Str(s) == <<"string", s>>
Bool(b) == <<"boolean", IF b THEN <<"true">> ELSE <<"false">>>>
NullValue == <<"null", <<"null">>>>
\* an object that refers to itself
Cyclic == <<"object", <<"cyclic">>>>

Member(key, value) == <<key, value>>

\* the escapes of JSON.stringify for the characters of the model's strings
RECURSIVE escape(_)
escape(s) ==
    IF s = <<>>
    THEN <<>>
    ELSE (IF Head(s) = "\n" THEN <<"\\n">>
          ELSE IF Head(s) = "\"" THEN <<"\\\"">>
          ELSE <<Head(s)>>) \o escape(Tail(s))

quote(s) == <<"\"">> \o escape(s) \o <<"\"">>

stringifyValue(value) ==
    IF value[1] = "string" THEN quote(value[2]) ELSE value[2]

RECURSIVE stringifyMembers(_)
stringifyMembers(members) ==
    IF members = <<>>
    THEN <<>>
    ELSE quote(<<members[1][1]>>) \o <<":">> \o stringifyValue(members[1][2])
             \o (IF Len(members) > 1 THEN <<",">> ELSE <<>>)
             \o stringifyMembers(Tail(members))

\* JSON.stringify(command): throws TypeError on a cyclic value
JSONstringify(command) ==
    IF \E i \in 1..Len(command) : command[i][2] = Cyclic
    THEN [ok |-> FALSE, text |-> <<>>]
    ELSE [ok |-> TRUE,
          text |-> <<"{">> \o stringifyMembers(command) \o <<"}">>]

\* the commands the host sends in a run with stdout and stderr events
Commands ==
    {<<Member("command", Str(<<"get_variables">>))>>,
     <<Member("command", Str(<<"update_variable">>)),
       Member("name", Str(<<"x">>)),
       Member("type", Str(<<"list">>)),
       Member("value", Cyclic)>>}

\* what stops lines 147-149, if anything does
Fault(command, writeThrows) ==
    IF ~JSONstringify(command).ok THEN "stringify"
    ELSE IF writeThrows THEN "write"
    ELSE "none"

\* sendCommand without the catch block of lines 150-154
sendCommandWithoutCatch(command, writeThrows) ==
    IF process = Null
    THEN Event("sendCommand", Null, process, "false", "none", "none",
               "none", <<>>)
    ELSE IF Fault(command, writeThrows) = "none"
    THEN Event("sendCommand", process, process, "true", "none", "none",
               "none", JSONstringify(command).text \o <<"\n">>)
    ELSE Event("sendCommand", process, process, "throws", "none", "none",
               "none", <<>>)

\* lines 139-155: the outcome of a call, as the event it leaves
sendCommand(command, writeThrows) ==
    IF process = Null
    THEN Event("sendCommand", Null, process, "false", "none", "none",
               "none", <<>>)
    ELSE IF Fault(command, writeThrows) = "none"
    THEN Event("sendCommand", process, process, "true", "none", "none",
               "none", JSONstringify(command).text \o <<"\n">>)
    ELSE Event("sendCommand", process, process, "false", "error", "none",
               "none", <<>>)

\* sendCommand without the guard of lines 140-144
SendCommandUnguarded(command) ==
    /\ \E writeThrows \in BOOLEAN :
           IF Fault(command, writeThrows) = "none"
           THEN last' = Event("sendCommand", process, process, "true",
                              "none", "none", "none",
                              JSONstringify(command).text \o <<"\n">>)
           ELSE last' = Event("sendCommand", process, process, "false",
                              "error", "none", "none", <<>>)
    /\ UNCHANGED <<process, messageCallback, outputBuffer, procState,
                   killedAgain, received, bufferOrigin, fed, log, bound, host>>

\* the host calls sendCommand
SendCommand(command) ==
    /\ \E writeThrows \in BOOLEAN :
           last' = sendCommand(command, writeThrows)
    /\ UNCHANGED <<process, messageCallback, outputBuffer, procState,
                   killedAgain, received, bufferOrigin, fed, log, bound, host>>

(***************************************************************************)
(* The methods over sendCommand (lines 157-212).  Each builds one command  *)
(* object and returns what sendCommand returns for it.                     *)
(***************************************************************************)
\* the arguments of the calls: names, file paths and code, the path into a
\* variable (none, null, empty or not), the new value of a variable
Names == {Str(<<"a">>)}
Texts == {Str(<<"a">>), Str(<<"a", "\n", "b">>)}
Paths == {NullValue, Str(<<>>), Str(<<"a">>), Str(<<"a", "\n", "b">>)}
Booleans == {Bool(TRUE), Bool(FALSE)}
Values == {Str(<<"a">>), Cyclic}

\* the truth value JavaScript gives a value in a condition
truthy(value) ==
    /\ value # NullValue
    /\ value # Str(<<>>)
    /\ value # Bool(FALSE)

runFile(filePath, captureMainLocals) ==
    <<Member("command", Str(<<"run_file">>)),
      Member("file", filePath),
      Member("capture_main_locals", captureMainLocals)>>

runCode(code, captureMainLocals) ==
    <<Member("command", Str(<<"run_code">>)),
      Member("code", code),
      Member("capture_main_locals", captureMainLocals)>>

getVariables == <<Member("command", Str(<<"get_variables">>))>>

\* lines 179-185 with the path member under the key "file"
getDetailsPathAsFile(varName, path) ==
    LET command == <<Member("command", Str(<<"get_details">>)),
                     Member("name", varName)>>
    IN  IF truthy(path)
        THEN command \o <<Member("file", path)>>
        ELSE command

getDetails(varName, path) ==
    LET command == <<Member("command", Str(<<"get_details">>)),
                     Member("name", varName)>>
    IN  IF truthy(path)
        THEN command \o <<Member("path", path)>>
        ELSE command

updateVariable(varName, varType, newValue) ==
    <<Member("command", Str(<<"update_variable">>)),
      Member("name", varName),
      Member("type", varType),
      Member("value", newValue)>>

clearNamespace == <<Member("command", Str(<<"clear_namespace">>))>>

saveSession(filePath) ==
    <<Member("command", Str(<<"save_session">>)),
      Member("file", filePath)>>

loadSession(filePath) ==
    <<Member("command", Str(<<"load_session">>)),
      Member("file", filePath)>>

\* "return this.sendCommand(command)" in the method of that name
Returns(method, args, command) ==
    /\ \E writeThrows \in BOOLEAN :
           last' = [sendCommand(command, writeThrows) EXCEPT
                        !.op = method,
                        !.call = [method  |-> method,
                                  args    |-> args,
                                  command |-> command,
                                  fault   |-> IF process = Null THEN "none"
                                              ELSE Fault(command,
                                                         writeThrows)]]
    /\ UNCHANGED <<process, messageCallback, outputBuffer, procState,
                   killedAgain, received, bufferOrigin, fed, log, bound, host>>

RunFile(filePath, captureMainLocals) ==
    Returns("runFile", <<filePath, captureMainLocals>>,
            runFile(filePath, captureMainLocals))

RunCode(code, captureMainLocals) ==
    Returns("runCode", <<code, captureMainLocals>>,
            runCode(code, captureMainLocals))

GetVariables == Returns("getVariables", <<>>, getVariables)

GetDetails(varName, path) ==
    Returns("getDetails", <<varName, path>>, getDetails(varName, path))

UpdateVariable(varName, varType, newValue) ==
    Returns("updateVariable", <<varName, varType, newValue>>,
            updateVariable(varName, varType, newValue))

ClearNamespace == Returns("clearNamespace", <<>>, clearNamespace)

SaveSession(filePath) ==
    Returns("saveSession", <<filePath>>, saveSession(filePath))

LoadSession(filePath) ==
    Returns("loadSession", <<filePath>>, loadSession(filePath))

(***************************************************************************)
(* dispose() (lines 218-223).  kill() signals a running process; on a      *)
(* ChildProcess whose spawn failed there is nothing to signal.             *)
(***************************************************************************)
kill(p) ==
    /\ procState' = [procState EXCEPT
           ![p] = IF @ = "running" THEN "killed"
                  ELSE IF @ = "failed" THEN "failedKilled"
                  ELSE @]
    /\ killedAgain' =
           (killedAgain \/ procState[p] \in {"killed", "failedKilled"})

\* dispose without line 221
DisposeKeepsHandle ==
    /\ IF process # Null
       THEN /\ kill(process)
            /\ process' = process
       ELSE UNCHANGED <<process, procState, killedAgain>>
    /\ last' = Event("dispose", process, process, "void", "none", "none",
                     "none", <<>>)
    /\ UNCHANGED <<messageCallback, outputBuffer, received, bufferOrigin,
                   fed, log, bound, host>>

Dispose ==
    /\ IF process # Null
       THEN /\ kill(process)
            /\ process' = Null
       ELSE UNCHANGED <<process, procState, killedAgain>>
    /\ last' = Event("dispose", process, process, "void", "none", "none",
                     "none", <<>>)
    /\ UNCHANGED <<messageCallback, outputBuffer, received, bufferOrigin,
                   fed, log, bound, host>>

(***************************************************************************)
(* The system: the host's calls and the workers' events, interleaved.      *)
(***************************************************************************)
Next ==
    \/ \E onMessage \in Callbacks : Start(onMessage)
    \/ \E p \in Pids : OnError(p)
    \/ \E p \in Pids :
         \E data \in Chunks : OnStdoutData(p, data)
    \/ \E p \in Pids :
         \E errorMsg \in FewStderrMessages : OnStderrData(p, errorMsg)
    \/ \E p \in Pids : \E code \in ExitCodes(p) : OnClose(p, code)
    \/ \E command \in Commands : SendCommand(command)
    \/ Dispose

Spec == Init /\ [][Next]_vars

(***************************************************************************)
(* The starts and ends of the workers with all their stderr texts.         *)
(***************************************************************************)
StderrNext ==
    \/ \E onMessage \in Callbacks : Start(onMessage)
    \/ \E p \in Pids : OnError(p)
    \/ \E p \in Pids :
         \E errorMsg \in StderrMessages : OnStderrData(p, errorMsg)
    \/ \E p \in Pids : \E code \in ExitCodes(p) : OnClose(p, code)
    \/ Dispose

StderrSpec == Init /\ [][StderrNext]_vars

(***************************************************************************)
(* The host's calls alone, with the exits of the workers: the methods over *)
(* sendCommand are called in every state of the session.                   *)
(***************************************************************************)
FacadeNext ==
    \/ \E onMessage \in Callbacks : Start(onMessage)
    \/ \E p \in Pids : OnError(p)
    \/ \E p \in Pids : \E code \in ExitCodes(p) : OnClose(p, code)
    \/ Dispose
    \/ \E filePath \in Texts :
         \E captureMainLocals \in Booleans :
             RunFile(filePath, captureMainLocals)
    \/ \E code \in Texts :
         \E captureMainLocals \in Booleans : RunCode(code, captureMainLocals)
    \/ GetVariables
    \/ \E varName \in Names : \E path \in Paths : GetDetails(varName, path)
    \/ \E varName \in Names : \E newValue \in Values :
           UpdateVariable(varName, Str(<<"list">>), newValue)
    \/ ClearNamespace
    \/ \E filePath \in Texts : SaveSession(filePath)
    \/ \E filePath \in Texts : LoadSession(filePath)

FacadeSpec == Init /\ [][FacadeNext]_vars

(***************************************************************************)
(* The starts of a session on any machine, by either of the two start      *)
(* methods of the repository, with the exits of the workers.               *)
(***************************************************************************)
EnvNext ==
    \/ \E onMessage \in Callbacks : Start(onMessage)
    \/ \E onMessage \in Callbacks : StartPart000(onMessage)
    \/ \E p \in Pids : OnError(p)
    \/ \E p \in Pids : \E code \in ExitCodes(p) : OnClose(p, code)
    \/ Dispose

EnvSpec == EnvInit /\ [][EnvNext]_vars

(***************************************************************************)
(* What the claims speak of.                                               *)
(***************************************************************************)
\* the terminated lines of a text, in order, without their terminators:
\* a scan, character by character, with the line begun so far
RECURSIVE ScanLines(_, _, _)
ScanLines(text, i, begun) ==
    IF i > Len(text) THEN <<>>
    ELSE IF text[i] = "\n"
         THEN <<begun>> \o ScanLines(text, i + 1, <<>>)
         ELSE ScanLines(text, i + 1, Append(begun, text[i]))

CompleteLines(text) == ScanLines(text, 1, <<>>)

\* the text after the last terminator: what the scan has begun at the end
RECURSIVE ScanRest(_, _, _)
ScanRest(text, i, begun) ==
    IF i > Len(text) THEN begun
    ELSE IF text[i] = "\n"
         THEN ScanRest(text, i + 1, <<>>)
         ELSE ScanRest(text, i + 1, Append(begun, text[i]))

AfterLastTerminator(text) == ScanRest(text, 1, <<>>)

\* the lines trimmed, those empty after trimming left out
NonEmpty(line) == line # <<>>

TrimmedNonEmpty(lines) ==
    SelectSeq([i \in 1..Len(lines) |-> trim(lines[i])], NonEmpty)

LinesOf(entries) == [i \in 1..Len(entries) |-> entries[i].line]

Invoked(entry) == entry.cb # Null

\* the callback invocations among log entries: <<callback, response>>
CallsOf(entries) ==
    LET inv == SelectSeq(entries, Invoked)
    IN  [i \in 1..Len(inv) |-> <<inv[i].cb, inv[i].value>>]

WellFormed(line) == JSONparse(line).ok

\* the entries a step appended to the log
NewEntries == SubSeq(log', Len(log) + 1, Len(log'))

\* the text a stdout step appended to the buffer
NewText == SubSeq(fed', Len(fed) + 1, Len(fed'))

\* workers spawned and neither signalled nor exited: a worker that dispose
\* has signalled is counted as terminated already
LiveWorkers == {p \in Pids : procState[p] = "running"}

(***************************************************************************)
(* C1.  At most one worker process exists per session at any time: in      *)
(* every reachable state the number of workers spawned and not yet         *)
(* terminated is at most 1.  Violated: the close (or error) handler of an  *)
(* earlier process clears the handle of the current one, and the next      *)
(* start spawns beside it.                                                 *)
(***************************************************************************)
C1_AtMostOneWorker == Cardinality(LiveWorkers) <= 1

(***************************************************************************)
(* C2.  A start that finds a process in the handle spawns nothing, leaves  *)
(* the handle and the output buffer unchanged and binds its callback; and  *)
(* every response decoded afterwards goes to the callback of the latest    *)
(* start call, also for a line partly buffered before the rebind.          *)
(***************************************************************************)
C2_SecondStartRebindsOnly ==
    [][/\ (last'.op = "start" /\ process # Null) =>
              /\ process' = process
              /\ outputBuffer' = outputBuffer
              /\ procState' = procState
              /\ messageCallback' = bound'
       /\ last'.op = "stdout" =>
              \A i \in 1..Len(NewEntries) :
                  NewEntries[i].ok => NewEntries[i].cb = bound]_vars

\* a second start has just rebound the callback, after a response went to
\* the first one and with the first part of a line in the buffer
C2_Witness ==
    /\ last.op = "start"
    /\ last.spawn = "none"
    /\ process # Null
    /\ outputBuffer # <<>>
    /\ log # <<>>
    /\ log[Len(log)].cb # Null
    /\ log[Len(log)].cb # messageCallback

(***************************************************************************)
(* C3.  sendCommand called with no process in the handle returns false,    *)
(* writes nothing and changes nothing of the session.                      *)
(***************************************************************************)
C3_SendWhenIdleIsRefused ==
    [][(last'.op = "sendCommand" /\ process = Null) =>
           /\ last'.ret = "false"
           /\ last'.wrote = <<>>
           /\ last'.pid = Null
           /\ UNCHANGED <<process, messageCallback, outputBuffer,
                          procState>>]_vars

\* sendCommand has just been refused after a dispose
C3_Witness ==
    /\ last.op = "sendCommand"
    /\ last.ret = "false"
    /\ process = Null
    /\ \E p \in Pids : procState[p] = "killed"

(***************************************************************************)
(* C4.  A malformed line neither ends the session nor drops other lines:   *)
(* a stdout event hands every complete line of the buffer to the decoder,  *)
(* invokes the callback exactly once, in order, for each well-formed one   *)
(* and never for a malformed one, and leaves the process handle alone.     *)
(***************************************************************************)
C4_MalformedLineIsSkipped ==
    [][last'.op = "stdout" =>
           LET lines == TrimmedNonEmpty(CompleteLines(outputBuffer \o NewText))
               good  == SelectSeq(lines, WellFormed)
           IN  /\ LinesOf(NewEntries) = lines
               /\ CallsOf(NewEntries) =
                      [i \in 1..Len(good) |->
                          <<messageCallback, JSONparse(good[i]).value>>]
               /\ process' = process
               /\ procState' = procState]_vars

\* one stdout event carried a malformed line and, after it, a well-formed
\* line that was delivered
C4_Witness ==
    /\ last.op = "stdout"
    /\ \E i, j \in 1..Len(log) :
           /\ i < j
           /\ ~log[i].ok
           /\ log[j].ok
           /\ log[j].cb # Null

(***************************************************************************)
(* C5.  Framing is independent of chunk boundaries: whatever the split of  *)
(* a worker's bytes into chunks, the lines framed are the lines of its     *)
(* output, trimmed, the empty ones left out.  Stated for a run with one    *)
(* worker, whose output is the bytes received since its spawn.  Violated:  *)
(* each chunk is decoded on its own, so a chunk boundary inside a          *)
(* multi-byte character replaces the character.                            *)
(***************************************************************************)
C5_FramingIgnoresChunkBoundaries ==
    (Cardinality(spawned) = 1 /\ procState[1] = "running") =>
        LinesOf(log) = TrimmedNonEmpty(CompleteLines(toString(received)))

(***************************************************************************)
(* C6.  An unterminated fragment is never yielded: the buffer holds no     *)
(* terminator and is exactly the text received after the last terminator   *)
(* since the buffer's reset, and the lines handed on since the reset are   *)
(* exactly the terminated ones; a reset (spawn, close) empties the buffer  *)
(* and hands nothing on.                                                   *)
(***************************************************************************)
C6_FragmentStaysBuffered ==
    /\ indexOf(outputBuffer, "\n") = 0
    /\ outputBuffer = AfterLastTerminator(fed)
    /\ LinesOf(log) = TrimmedNonEmpty(CompleteLines(fed))

\* a stdout event has framed a line and left a fragment in the buffer
C6_Witness ==
    /\ last.op = "stdout"
    /\ log # <<>>
    /\ outputBuffer # <<>>

(***************************************************************************)
(* C7.  The output buffer never spans a restart: while a process is held,  *)
(* the buffer holds only text of that process.  Violated: the stdout       *)
(* handler of a disposed process still appends to the one buffer.          *)
(***************************************************************************)
C7_BufferOfHeldProcessOnly ==
    process # Null =>
        \A i \in 1..Len(bufferOrigin) : bufferOrigin[i] = process

(***************************************************************************)
(* C8.  When the held worker exits with a code that is neither 0 nor null, *)
(* the handle is cleared, a warning is shown and the buffer is empty; and  *)
(* a start that follows attempts a spawn, which, unless it throws, puts a  *)
(* new process in the handle.                                              *)
(***************************************************************************)
C8_AbnormalExitThenRestart ==
    [][/\ (/\ last'.op = "close"
           /\ last'.held = last'.pid
           /\ last'.code \notin {"0", "null"}) =>
              /\ process' = Null
              /\ last'.diag = "warning"
              /\ outputBuffer' = <<>>
       /\ (/\ last.op = "close"
           /\ last.held = last.pid
           /\ last.code \notin {"0", "null"}
           /\ last'.op = "start") =>
              /\ last'.spawn # "none"
              /\ last'.spawn # "throw" =>
                     /\ process' \notin spawned
                     /\ process' \in Pids
                     /\ procState'[process'] # "unborn"]_vars

\* the held worker has just exited with code 1
C8_Witness ==
    /\ last.op = "close"
    /\ last.held = last.pid
    /\ last.code = "1"
    /\ process = Null
    /\ last.diag = "warning"

(***************************************************************************)
(* C9.  dispose is idempotent: it always leaves the handle empty, with no  *)
(* process in the handle it changes nothing, and no process is ever        *)
(* killed twice.                                                           *)
(***************************************************************************)
C9_DisposeIsIdempotent ==
    [][/\ last'.op = "dispose" =>
              /\ process' = Null
              /\ process = Null =>
                     UNCHANGED <<procState, messageCallback, outputBuffer>>
       /\ ~killedAgain']_vars

\* dispose has just been called with the handle already emptied by an
\* earlier dispose
C9_Witness ==
    /\ last.op = "dispose"
    /\ last.held = Null
    /\ process = Null
    /\ \E p \in Pids : procState[p] = "killed"

(***************************************************************************)
(* C10.  After a start whose spawn failed, the session is Idle until a     *)
(* later start succeeds: the handle never holds a ChildProcess whose       *)
(* spawn failed, and sendCommand never returns true for one.  Violated:    *)
(* the handle holds it from the return of spawn() until the 'error' event. *)
(***************************************************************************)
C10_FailedSpawnStaysIdle ==
    /\ \A p \in Pids : procState[p] = "failed" => process # p
    /\ (last.op = "sendCommand" /\ last.ret = "true") =>
           procState[last.pid] \notin {"failed", "failedKilled"}

(***************************************************************************)
(* C11.  isRunning() is true whenever the worker spawned by the latest     *)
(* start is alive and has not been disposed.  Violated: the close and      *)
(* error handlers of an earlier, disposed process clear the handle of the  *)
(* worker spawned after it, and isRunning() turns false while that worker  *)
(* runs.                                                                   *)
(***************************************************************************)
LatestWorker == Cardinality(spawned)

C11_RunningWorkerIsReported ==
    (spawned # {} /\ procState[LatestWorker] = "running") => isRunning

(***************************************************************************)
(* C13.  Whenever the process handle is null, the output buffer is empty.  *)
(* Violated: dispose clears the handle and leaves the buffer as it is, and *)
(* the stdout handler of a killed process still appends to the buffer      *)
(* while no process is held.                                               *)
(***************************************************************************)
C13_IdleBufferEmpty ==
    process = Null => outputBuffer = <<>>

(***************************************************************************)
(* C18.  On a process exit a warning is shown iff the exit code is neither *)
(* 0 nor null; and every exit, whatever its code, leaves the handle null   *)
(* and spawns nothing.                                                     *)
(***************************************************************************)
C18_WarningIffAbnormalExit ==
    [][last'.op = "close" =>
           /\ last'.diag = "warning" <=> last'.code \notin {"0", "null"}
           /\ last'.diag \in {"warning", "none"}
           /\ process' = Null
           /\ spawned' = spawned
           /\ \A p \in Pids :
                  p # last'.pid => procState'[p] = procState[p]]_vars

\* the worker killed by dispose has just exited with a null code, and no
\* warning was shown
C18_Witness ==
    /\ last.op = "close"
    /\ last.code = "null"
    /\ last.diag = "none"
    /\ last.held = Null
    /\ process = Null

(***************************************************************************)
(* C19.  The callback is only invoked with a response of the process held  *)
(* in the handle: every line a stdout event hands to the callback comes    *)
(* from the process the handle holds at that event.  Violated: the stdout  *)
(* handler of a disposed or replaced process still decodes its lines and   *)
(* invokes the callback registered now.                                    *)
(***************************************************************************)
C19_OnlyHeldProcessIsDelivered ==
    [][last'.op = "stdout" =>
           \A i \in 1..Len(NewEntries) :
               NewEntries[i].cb # Null => NewEntries[i].pid = process]_vars

C17_StderrShownIffMarker ==
    [][last'.op = "stderr" =>
           /\ last'.diag = "error" <=>
                  \E m \in Markers : includes(last'.wrote, m)
           /\ last'.diag \in {"error", "none"}
           /\ UNCHANGED <<process, outputBuffer, messageCallback,
                          procState>>]_vars

\* a chunk with ImportError inside a longer word has just been shown while
\* the worker that wrote it is held and running
C17_Witness ==
    /\ last.op = "stderr"
    /\ last.wrote = <<"Zip", "Import", "Error">>
    /\ last.diag = "error"
    /\ process # Null
    /\ procState[process] = "running"

(***************************************************************************)
(* The command table: the members of the command each method is to send,   *)
(* for the arguments of a call; withPath says whether get_details carries  *)
(* its path.                                                               *)
(***************************************************************************)
Row(call, withPath) ==
    LET name(text) == Member("command", Str(<<text>>))
        arg(i)    == call.args[i]
    IN  CASE call.method = "runFile" ->
                 {name("run_file"), Member("file", arg(1)),
                  Member("capture_main_locals", arg(2))}
          [] call.method = "runCode" ->
                 {name("run_code"), Member("code", arg(1)),
                  Member("capture_main_locals", arg(2))}
          [] call.method = "getVariables" -> {name("get_variables")}
          [] call.method = "getDetails" ->
                 {name("get_details"), Member("name", arg(1))}
                     \cup (IF withPath THEN {Member("path", arg(2))} ELSE {})
          [] call.method = "updateVariable" ->
                 {name("update_variable"), Member("name", arg(1)),
                  Member("type", arg(2)), Member("value", arg(3))}
          [] call.method = "clearNamespace" -> {name("clear_namespace")}
          [] call.method = "saveSession" ->
                 {name("save_session"), Member("file", arg(1))}
          [] call.method = "loadSession" ->
                 {name("load_session"), Member("file", arg(1))}

MembersOf(command) == {command[i] : i \in 1..Len(command)}

\* the step is a call of a method of the facade that sent the members of
\* its row, each once, by one sendCommand whose result it returned
SentRow(withPath) ==
    LET call == last'.call
        sent == sendCommand(call.command, call.fault = "write")
    IN  /\ MembersOf(call.command) = Row(call, withPath)
        /\ Len(call.command) = Cardinality(Row(call, withPath))
        /\ last'.ret = sent.ret
        /\ last'.ret \in {"true", "false"}
        /\ last'.wrote = sent.wrote
        /\ last'.diag = sent.diag
        /\ UNCHANGED <<process, messageCallback, outputBuffer, procState>>

(***************************************************************************)
(* C14 as stated.  Every method of the facade calls sendCommand once with  *)
(* the command of its row and returns its result; getDetails sends the     *)
(* path member exactly when a path argument is supplied.  Violated by      *)
(* getDetails(name, ""): the empty path is supplied and not sent.          *)
(***************************************************************************)
C14_PathSentWhenSupplied ==
    [][last'.call.method # "none" =>
           SentRow(last'.call.method = "getDetails"
                       /\ last'.call.args[2] # NullValue)]_vars

(***************************************************************************)
(* C14 as amended.  Every method of the facade calls sendCommand once with *)
(* the command of its row and returns its result; getDetails sends the     *)
(* path member exactly when the path argument is a non-empty string, and   *)
(* omits it for no argument, null and the empty string.                    *)
(***************************************************************************)
C14_PathSentWhenNonEmpty ==
    [][last'.call.method # "none" =>
           SentRow(last'.call.method = "getDetails"
                       /\ last'.call.args[2] # NullValue
                       /\ last'.call.args[2] # Str(<<>>))]_vars

\* getDetails has just sent a command with a path to the held worker
C14_Witness ==
    /\ last.op = "getDetails"
    /\ last.call.args[2] = Str(<<"a">>)
    /\ last.call.command[3] = Member("path", Str(<<"a">>))
    /\ last.held # Null
    /\ last.ret = "true"

(***************************************************************************)
(* C16.  A sendCommand with a process in the handle whose JSON.stringify   *)
(* or write throws returns false and shows the communication error,        *)
(* writes nothing, and leaves handle, buffer and callback as they were;    *)
(* one that does not throw returns true and has written the JSON text of   *)
(* the command and one newline, the only one of the text written.          *)
(***************************************************************************)
C16_SendFaultIsContained ==
    [][(last'.call.method # "none" /\ last'.held # Null) =>
           /\ UNCHANGED <<process, outputBuffer, messageCallback>>
           /\ last'.call.fault # "none" =>
                  /\ last'.ret = "false"
                  /\ last'.diag = "error"
                  /\ last'.wrote = <<>>
           /\ last'.call.fault = "none" =>
                  /\ last'.ret = "true"
                  /\ last'.diag = "none"
                  /\ last'.wrote =
                         JSONstringify(last'.call.command).text \o <<"\n">>
                  /\ indexOf(last'.wrote, "\n") = Len(last'.wrote)]_vars

\* updateVariable has just been refused for a value that JSON.stringify
\* cannot serialize, with a process in the handle
C16_Witness ==
    /\ last.op = "updateVariable"
    /\ last.call.fault = "stringify"
    /\ last.held # Null
    /\ last.ret = "false"
    /\ last.diag = "error"
    /\ process = last.held

(***************************************************************************)
(* C20.  A fault of the callback stays inside the stdout handler: when the *)
(* callback registered throws on every response, a stdout event still      *)
(* decodes every complete line of the buffer and the chunk, calls the      *)
(* callback for each well-formed one in their order, catches each fault,   *)
(* keeps the text after the last terminator in the buffer and leaves the   *)
(* handle and the callback as they were.                                   *)
(***************************************************************************)
C20_CallbackFaultIsContained ==
    [][(last'.op = "stdout" /\ messageCallback \in ThrowingCallbacks) =>
           LET text  == outputBuffer \o NewText
               lines == TrimmedNonEmpty(CompleteLines(text))
               good  == SelectSeq(lines, WellFormed)
           IN  /\ LinesOf(NewEntries) = lines
               /\ CallsOf(NewEntries) =
                      [i \in 1..Len(good) |->
                          <<messageCallback, JSONparse(good[i]).value>>]
               /\ \A i \in 1..Len(NewEntries) : NewEntries[i].caught
               /\ outputBuffer' = AfterLastTerminator(text)
               /\ process' = process
               /\ messageCallback' = messageCallback]_vars

\* the throwing callback has been called for two lines, the second after
\* the fault of the first
C20_Witness ==
    /\ last.op = "stdout"
    /\ Len(log) = 2
    /\ \A i \in 1..2 :
           /\ log[i].cb \in ThrowingCallbacks
           /\ log[i].caught
    /\ outputBuffer = <<>>

(***************************************************************************)
(* C15.  The search path start builds is: each configured extra path in    *)
(* its order, an absolute one as it is, a relative one joined to the       *)
(* workspace folder if there is one and as it is otherwise; then the path  *)
(* of the extension; then the inherited search path if it is not empty;    *)
(* and nothing else.  Violated by the start of src/unnamed/part_000, which *)
(* puts the directories of the workspace between the extra paths and the   *)
(* path of the extension.                                                  *)
(***************************************************************************)
SearchPath(machine) ==
    LET extra == machine.extraPaths
        root  == machine.workspaceFolder
        old   == machine.PYTHONPATH
    IN  [i \in 1..Len(extra) |->
            IF extra[i][1] # "/" /\ root.defined
            THEN join(root.value, extra[i])
            ELSE extra[i]]
            \o <<<<"/", "ext", "/", "python">>>>
            \o (IF old.defined /\ Len(old.value) > 0
                THEN <<old.value>>
                ELSE <<>>)

C15_SearchPathIsExact ==
    (last.op = "start" /\ last.env.built) =>
        last.env.PYTHONPATH = SearchPath(host)

=============================================================================
